---- MODULE Spec2Model ----
(***************************************************************************)
(* A model of the slack-summarizer batch job: SlackClient's history        *)
(* fetcher (get_channel_messages), its identity cache (fetch_user_mapping  *)
(* with _is_cache_valid, _load_user_cache, _save_user_cache) and the       *)
(* orchestration loop of main().                                           *)
(*                                                                         *)
(* The Slack Web API is the environment.  Every request is answered by a   *)
(* nondeterministic choice among the answers the client library can give:  *)
(* a response, a SlackApiError (the API answered ok=false), or another     *)
(* exception (the request never got an answer).                            *)
(***************************************************************************)
EXTENDS Integers, Sequences, FiniteSets, TLC

\* ------------------------------------------------------------------ bounds
\* Top-level message ids (ts) the history service may return: 1..MaxTs.
MaxTs == 2
\* Top-level messages the service delivers over one run, all pages together.
MaxHist == 2
\* History requests the service answers over one run.
MaxPages == 3
\* Replies that follow the parent in one conversations.replies response.
MaxReplies == 2

\* ------------------------------------------------------- values and inputs
\* Python's None, for a cursor that is absent.
None == "None"

\* next_cursor values a history response may carry: absent, empty, or a token.
Cursors == {"C1", "C2"}
NextCursors == {None, ""} \cup Cursors

\* Python truthiness of a cursor value.
Truthy(c) == c # None /\ c # ""

\* Subtype values: "" stands for a message without a subtype.
Subtypes == {"", "channel_join"}

\* The messages a history page may hold.  thread_ts = 0 stands for a message
\* without a thread_ts; thread_ts = ts marks a thread root.
TopMsgs ==
    [ts : 1..MaxTs, type : {"message"}, subtype : Subtypes, thread_ts : 0..MaxTs]

\* The parent of thread t as conversations.replies returns it (first entry).
Root(t) == [ts |-> t, type |-> "message", subtype |-> "", thread_ts |-> t]

\* The i-th reply of thread t; replies have ids of their own, after the parent's.
Reply(t, i, st) ==
    [ts |-> 10 * t + i, type |-> "message", subtype |-> st, thread_ts |-> t]

\* The "messages" lists a successful conversations.replies(ts=t) may return:
\* none, or the parent followed by up to MaxReplies replies of either kind.
ThreadResponses(t) ==
    {<< >>} \cup
    UNION { { <<Root(t)>> \o [i \in 1..n |-> Reply(t, i, k[i])] :
                k \in [1..n -> Subtypes] } : n \in 0..MaxReplies }

\* How a request can fail: SlackApiError with the given error code, or an
\* exception that is not a SlackApiError (no answer from the service).
ApiErrors == {"channel_not_found", "ratelimited"}
IsSlackApiError(e) == e \in ApiErrors

\* ------------------------------------------------------------------- state
VARIABLES
    \* the clock, in hours (datetime.now())
    now,
    \* what the service still has to give in this run: top-level messages,
    \* pages, and the member lists users.list may answer
    svcHist, svcPages, svcMembers,
    \* get_channel_messages: position, locals, outcome
    fpc, oldest_ts, messages, cursor, response, idx, result, raised,
    \* get_channel_messages: what it asked and what it was answered, in order
    reqLog, histLog, expLog,
    \* cache/user_cache.json
    cacheFile,
    \* fetch_user_mapping: position, locals (response["members"] and the
    \* mapping built from it), returned value
    upc, users_response, user_mapping, uret,
    \* fetch_user_mapping: how the last call went, and the entry the file
    \* holds when it holds one whole
    ucall, persisted,
    \* the configuration: config["slack"]["channels"], ["summary"]["duration_days"]
    channels, duration_days,
    \* main: position, index of the channel of the loop, locals
    mpc, chan, channel_mapping, channel_info, channel_name,
    \* the requests of the run outside get_channel_messages and
    \* fetch_user_mapping, in order, each with how it was answered
    apiLog,
    \* main: the channels (by index) for which get_channel_messages returned
    \* [], the ones summarize_messages was called for, the summary files
    \* written, and the exception that ended the run
    emptyLog, digestLog, artifacts, mainRaised,
    \* the environment of the process: os.environ (SLACK_TOKEN,
    \* OPENAI_API_KEY), whether config/config.yaml exists, and the methods the
    \* service refuses the token for want of a scope
    env, config_exists, svcDenied,
    \* SlackClient: self.token, and the endpoint test _test_auth has come to
    token, tpc,
    \* the log records that interpolate text taken from a credential
    logs

fetchVars ==
    <<fpc, oldest_ts, messages, cursor, response, idx, result, raised,
      reqLog, histLog, expLog>>
envVars == <<svcHist, svcPages, svcMembers>>
cacheVars == <<cacheFile, upc, users_response, user_mapping, uret, ucall, persisted>>
mainVars ==
    <<channels, duration_days, mpc, chan, channel_mapping, channel_info,
      channel_name, apiLog, emptyLog, digestLog, artifacts, mainRaised>>
startVars == <<env, config_exists, svcDenied, token, tpc, logs>>
vars == <<now, envVars, fetchVars, cacheVars, mainVars, startVars>>

\* ------------------------------------------------ get_channel_messages
\* oldest_time = datetime.now() - timedelta(days=days), in hours.
OldestTs(t, days) == t - 24 * days

\* The filter without its subtype test.
IsOrdinaryNoSubtype(msg) == msg.type = "message"

\* msg.get("type") == "message" and not msg.get("subtype")
IsOrdinary(msg) == msg.type = "message" /\ msg.subtype = ""

\* if msg.get("thread_ts"):
HasThread(msg) == msg.thread_ts # 0

\* The slice that keeps the parent: thread_messages[0:].
SkipParentKept(thread_messages) == thread_messages

\* thread_messages[1:]
SkipParent(thread_messages) ==
    IF thread_messages = << >> THEN << >> ELSE Tail(thread_messages)

\* The comprehension without its filter.
KeptRepliesUnfiltered(thread_messages) == SkipParent(thread_messages)

\* [reply for reply in thread_messages[1:] if reply is ordinary]
KeptReplies(thread_messages) == SelectSeq(SkipParent(thread_messages), IsOrdinary)

\* The break that looks at the cursor alone.
LoopEndsOnCursorOnly(next_cursor, has_more) == ~Truthy(next_cursor)

\* The break that looks at the flag alone.
LoopEndsOnFlagOnly(next_cursor, has_more) == ~has_more

\* The loop without its break.
LoopEndsNever(next_cursor, has_more) == FALSE

\* if not cursor or not response.get("has_more", False): break
LoopEnds(next_cursor, has_more) == ~Truthy(next_cursor) \/ ~has_more

\* The handler without its channel_not_found case.
IsChannelNotFoundNever(e) == FALSE

\* The handler that takes every error for channel_not_found.
IsChannelNotFoundAlways(e) == TRUE

\* if "channel_not_found" in str(e): return []
IsChannelNotFound(e) == e = "channel_not_found"

NoResponse == [messages |-> << >>, next_cursor |-> None, has_more |-> FALSE]

\* The state get_channel_messages(channel, days) starts its loop in:
\* oldest_ts computed, messages = [], cursor = None.
FetchEntry(days) ==
    /\ fpc' = "request"
    /\ oldest_ts' = OldestTs(now, days)
    /\ messages' = << >>
    /\ cursor' = None
    /\ response' = NoResponse
    /\ idx' = 0
    /\ result' = << >>
    /\ raised' = None
    /\ reqLog' = << >>
    /\ histLog' = << >>
    /\ expLog' = << >>

\* The entry of reqLog for a history request: what was sent (cursor, oldest)
\* and what came back (outcome "ok" with the page's next_cursor and has_more,
\* or the error).
Request(outcome, nc, hm) ==
    [cursor |-> cursor, oldest |-> oldest_ts, outcome |-> outcome,
     next_cursor |-> nc, has_more |-> hm]

\* conversations_history(channel, limit=100, oldest=oldest_ts, cursor=cursor)
\* answered by a page: up to the messages the service still has, a next_cursor
\* (absent, empty or a token) and has_more (absent counts as False).
HistoryPage ==
    /\ fpc = "request"
    /\ svcPages > 0
    /\ \E n \in 0..svcHist :
       \E page \in [1..n -> TopMsgs] :
       \E nc \in NextCursors :
       \E hm \in BOOLEAN :
          /\ response' = [messages |-> page, next_cursor |-> nc, has_more |-> hm]
          /\ histLog' = histLog \o page
          /\ svcHist' = svcHist - n
          /\ reqLog' = Append(reqLog, Request("ok", nc, hm))
    /\ svcPages' = svcPages - 1
    /\ idx' = 1
    /\ fpc' = "process"
    /\ UNCHANGED <<now, svcMembers, oldest_ts, messages, cursor, result, raised,
                   expLog>>

\* conversations_history raises.  A SlackApiError naming channel_not_found
\* returns []; any other SlackApiError is logged and re-raised; an exception
\* that is no SlackApiError is caught nowhere in get_channel_messages.
HistoryFails ==
    /\ fpc = "request"
    /\ svcPages > 0
    /\ svcPages' = svcPages - 1
    /\ \E e \in ApiErrors \cup {"transport"} :
          /\ reqLog' = Append(reqLog, Request(e, None, FALSE))
          /\ IF IsSlackApiError(e) /\ IsChannelNotFound(e)
             THEN /\ fpc' = "done"
                  /\ result' = << >>
                  /\ raised' = raised
             ELSE /\ fpc' = "raised"
                  /\ raised' = e
                  /\ result' = result
    /\ UNCHANGED <<now, svcHist, svcMembers, oldest_ts, messages, cursor,
                   response, idx, histLog, expLog>>

\* for msg in channel_messages: a message that is not ordinary is passed over.
SkipMessage ==
    /\ fpc = "process"
    /\ idx <= Len(response.messages)
    /\ ~IsOrdinary(response.messages[idx])
    /\ idx' = idx + 1
    /\ UNCHANGED <<now, envVars, fpc, oldest_ts, messages, cursor, response,
                   result, raised, reqLog, histLog, expLog>>

\* An ordinary message without thread_ts is appended.
KeepMessage ==
    /\ fpc = "process"
    /\ idx <= Len(response.messages)
    /\ IsOrdinary(response.messages[idx])
    /\ ~HasThread(response.messages[idx])
    /\ messages' = Append(messages, response.messages[idx])
    /\ idx' = idx + 1
    /\ UNCHANGED <<now, envVars, fpc, oldest_ts, cursor, response,
                   result, raised, reqLog, histLog, expLog>>

\* The entry of expLog for the message being processed.
Expansion(msg, outcome, thread_messages) ==
    [at |-> Len(histLog) - Len(response.messages) + idx,
     ts |-> msg.thread_ts, oldest |-> oldest_ts,
     outcome |-> outcome, messages |-> thread_messages]

\* An ordinary message with thread_ts is appended, then
\* conversations_replies(channel, ts=msg["thread_ts"], oldest=oldest_ts) is
\* asked: its kept replies are appended; a SlackApiError is logged and the loop
\* goes on; any other exception leaves the function.
ExpandThread ==
    /\ fpc = "process"
    /\ idx <= Len(response.messages)
    /\ IsOrdinary(response.messages[idx])
    /\ HasThread(response.messages[idx])
    /\ LET msg == response.messages[idx] IN
       \/ \E tm \in ThreadResponses(msg.thread_ts) :
             /\ messages' = Append(messages, msg) \o KeptReplies(tm)
             /\ expLog' = Append(expLog, Expansion(msg, "ok", tm))
             /\ idx' = idx + 1
             /\ UNCHANGED <<fpc, raised>>
       \/ \E e \in ApiErrors :
             /\ messages' = Append(messages, msg)
             /\ expLog' = Append(expLog, Expansion(msg, e, << >>))
             /\ idx' = idx + 1
             /\ UNCHANGED <<fpc, raised>>
       \/ /\ messages' = Append(messages, msg)
          /\ expLog' = Append(expLog, Expansion(msg, "transport", << >>))
          /\ fpc' = "raised"
          /\ raised' = "transport"
          /\ idx' = idx
    /\ UNCHANGED <<now, envVars, oldest_ts, cursor, response, result,
                   reqLog, histLog>>

\* After the page's last message: cursor = next_cursor; the loop breaks when
\* the cursor is falsy or has_more is not set, and the function returns messages.
EndPage ==
    /\ fpc = "process"
    /\ idx > Len(response.messages)
    /\ cursor' = response.next_cursor
    /\ IF LoopEnds(response.next_cursor, response.has_more)
       THEN /\ fpc' = "done"
            /\ result' = messages
       ELSE /\ fpc' = "request"
            /\ result' = result
    /\ UNCHANGED <<now, envVars, oldest_ts, messages, response, idx, raised,
                   reqLog, histLog, expLog>>

FetchStep ==
    \/ HistoryPage
    \/ HistoryFails
    \/ SkipMessage
    \/ KeepMessage
    \/ ExpandThread
    \/ EndPage

\* ---------------------------------------------------- fetch_user_mapping
\* self.user_cache_ttl = timedelta(hours=24)
CacheTtlHours == 24

\* Members the users.list response may hold; "" stands for a field that is
\* empty or missing (both falsy).
UserIds == {"U1", "U2"}
Members ==
    [id : UserIds, display_name : {"", "Al"}, real_name : {"", "Bob"},
     name : {"", "bob123"}]
\* The "members" lists a users.list response may hold: none, any one member,
\* two members with different ids, or the same id twice.
Named(id, display_name) ==
    [id |-> id, display_name |-> display_name, real_name |-> "", name |-> ""]
MemberLists ==
    {<< >>} \cup {<<m>> : m \in Members}
    \cup {<<Named("U1", "Al"), Named("U2", "Zed")>>,
          <<Named("U2", "Zed"), Named("U2", "")>>}

\* {} as a mapping of user ids to names.
EmptyMapping == [k \in {} |-> ""]

\* The precedence with the account name before the real name.
ResolveNameAccountFirst(user) ==
    IF user.display_name # "" THEN user.display_name
    ELSE IF user.name # "" THEN user.name
    ELSE IF user.real_name # "" THEN user.real_name
    ELSE user.id

\* display_name or real_name or username or user_id
ResolveName(user) ==
    IF user.display_name # "" THEN user.display_name
    ELSE IF user.real_name # "" THEN user.real_name
    ELSE IF user.name # "" THEN user.name
    ELSE user.id

\* for user in response["members"]: user_mapping[user_id] = ...
RECURSIVE BuildMapping(_)
BuildMapping(members) ==
    IF members = << >> THEN EmptyMapping
    ELSE LET before == BuildMapping(SubSeq(members, 1, Len(members) - 1))
             user == members[Len(members)]
         IN [k \in DOMAIN before \cup {user.id} |->
                IF k = user.id THEN ResolveName(user) ELSE before[k]]

\* datetime.isoformat() and datetime.fromisoformat(), to the hour: the text
\* names the day and the hour of the day.
IsoFormat(t) == [day |-> t \div 24, hour |-> t % 24]
FromIsoFormat(text) == 24 * text.day + text.hour

\* json.dump and json.load of a dict of strings: the document lists the
\* key/value pairs.
JsonDump(mapping) == {<<k, mapping[k]>> : k \in DOMAIN mapping}
\* A load that keeps the keys and loses the values.
JsonLoadKeysOnly(pairs) ==
    [k \in {p[1] : p \in pairs} |-> k]
JsonLoad(pairs) ==
    [k \in {p[1] : p \in pairs} |-> (CHOOSE p \in pairs : p[1] = k)[2]]

\* What cache/user_cache.json can be: absent; of length zero; a document cut
\* short; or a JSON object with the keys it has.
NoFile == [kind |-> "absent", keys |-> {}, timestamp |-> IsoFormat(0), users |-> {}]
EmptyFile == [kind |-> "empty", keys |-> {}, timestamp |-> IsoFormat(0), users |-> {}]
PartialFile == [kind |-> "partial", keys |-> {}, timestamp |-> IsoFormat(0), users |-> {}]
JsonFile(keys, timestamp, users) ==
    [kind |-> "json", keys |-> keys,
     timestamp |-> IF "timestamp" \in keys THEN timestamp ELSE IsoFormat(0),
     users |-> IF "users" \in keys THEN users ELSE {}]

\* cache_data = {"timestamp": datetime.now().isoformat(), "users": user_mapping}
\* as json.dump leaves it in the file when it completes.
Dumped(t, mapping) ==
    JsonFile({"timestamp", "users"}, IsoFormat(t), JsonDump(mapping))

\* self.user_cache_file.exists()
Exists(file) == file.kind # "absent"

\* json.load(f) succeeds (no JSONDecodeError).
Parses(file) == file.kind = "json"

\* The validity test that counts an entry of exactly 24 hours as fresh.
IsCacheValidInclusive(file, t) ==
    /\ Exists(file)
    /\ Parses(file)
    /\ "timestamp" \in file.keys
    /\ t - FromIsoFormat(file.timestamp) <= CacheTtlHours

\* _is_cache_valid: the file exists, parses, has a timestamp, and
\* datetime.now() - cache_time < self.user_cache_ttl.
IsCacheValid(file, t) ==
    /\ Exists(file)
    /\ Parses(file)
    /\ "timestamp" \in file.keys
    /\ t - FromIsoFormat(file.timestamp) < CacheTtlHours

\* _load_user_cache: cache_data["users"], or {} on JSONDecodeError / KeyError.
LoadUserCache(file) ==
    IF Parses(file) /\ "users" \in file.keys THEN JsonLoad(file.users)
    ELSE EmptyMapping

\* The entry a file holds, for the record of what is persisted.
NothingPersisted == [has |-> FALSE, at |-> 0, mapping |-> EmptyMapping]
Entry(t, mapping) == [has |-> TRUE, at |-> t, mapping |-> mapping]

\* A call may start when no call is under way (each run calls once).
Callable == upc \in {"idle", "returned", "raised", "killed"}

\* A fetch_user_mapping that removes an invalid cache file when users_list
\* fails.
FetchUserMappingClearing ==
    /\ Callable
    /\ ~IsCacheValid(cacheFile, now)
    /\ ucall' \in ApiErrors
    /\ uret' = EmptyMapping
    /\ upc' = "returned"
    /\ cacheFile' = NoFile
    /\ persisted' = NothingPersisted
    /\ UNCHANGED <<now, users_response, user_mapping>>

\* fetch_user_mapping, up to its return or to the call of _save_user_cache:
\* a valid cache is loaded and returned; otherwise users_list is asked, and its
\* members become user_mapping; a SlackApiError falls back to the file if there
\* is one, else to {}; any other exception leaves the function.
FetchUserMapping ==
    /\ Callable
    /\ \/ /\ IsCacheValid(cacheFile, now)
          /\ uret' = LoadUserCache(cacheFile)
          /\ upc' = "returned"
          /\ ucall' = "cached"
          /\ UNCHANGED <<users_response, user_mapping>>
       \/ /\ ~IsCacheValid(cacheFile, now)
          /\ \E members \in svcMembers :
                /\ users_response' = members
                /\ user_mapping' = BuildMapping(members)
          /\ upc' = "save"
          /\ ucall' = "fetched"
          /\ UNCHANGED uret
       \/ /\ ~IsCacheValid(cacheFile, now)
          /\ ucall' \in ApiErrors
          /\ uret' = IF Exists(cacheFile) THEN LoadUserCache(cacheFile)
                     ELSE EmptyMapping
          /\ upc' = "returned"
          /\ UNCHANGED <<users_response, user_mapping>>
       \/ /\ ~IsCacheValid(cacheFile, now)
          /\ ucall' = "transport"
          /\ upc' = "raised"
          /\ UNCHANGED <<users_response, user_mapping, uret>>
    /\ UNCHANGED <<now, cacheFile, persisted>>

\* A _save_user_cache without its "except Exception": a failure to open
\* leaves the function.
SaveOpenRaises ==
    /\ upc = "save"
    /\ \/ /\ cacheFile' = EmptyFile
          /\ persisted' = NothingPersisted
          /\ upc' = "write"
          /\ UNCHANGED <<uret, users_response, user_mapping>>
       \/ /\ upc' = "raised"
          /\ UNCHANGED <<cacheFile, persisted, uret, users_response, user_mapping>>
    /\ UNCHANGED <<now, ucall>>

\* _save_user_cache, open(self.user_cache_file, "w"): the file is created or
\* cut to length zero; a failure to open is logged and the mapping returned.
SaveOpen ==
    /\ upc = "save"
    /\ \/ /\ cacheFile' = EmptyFile
          /\ persisted' = NothingPersisted
          /\ upc' = "write"
          /\ UNCHANGED <<uret, users_response, user_mapping>>
       \/ /\ upc' = "returned"
          /\ uret' = user_mapping
          /\ users_response' = << >>
          /\ user_mapping' = EmptyMapping
          /\ UNCHANGED <<cacheFile, persisted>>
    /\ UNCHANGED <<now, ucall>>

\* _save_user_cache, json.dump(cache_data, f, indent=2) into the open file:
\* the document is written whole, or the write fails on the way (the file
\* keeps what had reached it), which is logged; the mapping is returned.
SaveDump ==
    /\ upc = "write"
    /\ \/ /\ cacheFile' = Dumped(now, user_mapping)
          /\ persisted' = Entry(now, user_mapping)
       \/ /\ cacheFile' \in {EmptyFile, PartialFile}
          /\ UNCHANGED persisted
    /\ upc' = "returned"
    /\ uret' = user_mapping
    /\ users_response' = << >>
    /\ user_mapping' = EmptyMapping
    /\ UNCHANGED <<now, ucall>>

\* The process is killed while _save_user_cache runs: what the file holds
\* stays, and of a dump under way any part may have reached it.
Killed ==
    /\ upc \in {"save", "write"}
    /\ upc' = "killed"
    /\ IF upc = "write"
       THEN cacheFile' \in {EmptyFile, PartialFile}
       ELSE UNCHANGED cacheFile
    /\ users_response' = << >>
    /\ user_mapping' = EmptyMapping
    /\ UNCHANGED <<now, uret, ucall, persisted>>

CacheStep ==
    \/ FetchUserMapping
    \/ SaveOpen
    \/ SaveDump

\* ------------------------------------------------------------------ main
\* Channel ids of the configuration and names the service knows them by.
ChannelIds == {"C1", "C2"}
ChannelLists == {<<"C1">>, <<"C1", "C2">>}
NoChannels == [c \in {} |-> ""]
ChannelMappings == {NoChannels, [c \in {"C1"} |-> "general"]}

\* The test of "if messages:" that is always true.
HasMessagesAlways(msgs) == TRUE

\* if messages:
HasMessages(msgs) == msgs # << >>

\* An exception reaches "except Exception as e: ... raise": the run ends.
Fail(e) ==
    /\ mpc' = "failed"
    /\ mainRaised' = e

\* An entry of apiLog.
Call(method, outcome) == [method |-> method, outcome |-> outcome]

\* A log record, by the place that emits it and the credential text it
\* interpolates.
Logged(site, text) == [site |-> site, text |-> text]

\* Text, for credentials, is a sequence of blocks of five characters each:
\* "xoxp-" and "xoxe." are the prefixes the code looks for, Blank is five
\* spaces, "sk-ab" a block that starts with "sk-".
Blank == "     "

\* An environment variable: unset (os.getenv gives None) or set to a text.
Unset == [set |-> FALSE, value |-> << >>]
Value(text) == [set |-> TRUE, value |-> text]

SlackTokens ==
    {Unset, Value(<< >>), Value(<<Blank>>), Value(<<"12345">>),
     Value(<<"xoxp-", "12345", "67890">>), Value(<<"xoxe.", "xoxp-", "12345">>),
     Value(<<"xoxe.", "xoxb-", "12345">>), Value(<<"xoxb-", "12345">>)}
OpenAiKeys ==
    {Unset, Value(<<Blank>>), Value(<<"sk-ab", "cdefg", "hijkl">>),
     Value(<<"pk-ab", "cdefg">>)}

\* os.getenv(var, default)
GetEnv(var, default) == IF env[var].set THEN env[var].value ELSE default

\* text.startswith(prefix), for a prefix of one block
StartsWith(text, prefix) == text # << >> /\ text[1] = prefix

\* api_key.startswith("sk-")
StartsWithSk(text) == text # << >> /\ text[1] = "sk-ab"

\* text.strip()
RECURSIVE Strip(_)
Strip(text) ==
    IF text = << >> THEN text
    ELSE IF text[1] = Blank THEN Strip(Tail(text))
    ELSE IF text[Len(text)] = Blank THEN Strip(SubSeq(text, 1, Len(text) - 1))
    ELSE text

\* text[:10]
FirstTen(text) == SubSeq(text, 1, IF Len(text) < 2 THEN Len(text) ELSE 2)

\* The check that finds no variable missing.
MissingVarsNone(e) == {}

\* [var for var in required_env_vars if not os.getenv(var)]
MissingVars(e) ==
    {var \in {"SLACK_TOKEN", "OPENAI_API_KEY"} :
        ~e[var].set \/ e[var].value = << >>}

\* config = load_config(): the token is logged as read; ValueError when a
\* required variable is missing, FileNotFoundError when config/config.yaml
\* is; else the token is logged again and the first ten characters of the key.
LoadConfig ==
    /\ mpc = "start"
    /\ LET slack_token == env["SLACK_TOKEN"].value
           read == {Logged("config.py:23", slack_token)}
       IN  IF MissingVars(env) # {}
           THEN Fail("ValueError") /\ logs' = logs \cup read
           ELSE IF ~config_exists
           THEN Fail("FileNotFoundError") /\ logs' = logs \cup read
           ELSE /\ mpc' = "slack"
                /\ logs' = logs \cup read \cup
                      {Logged("config.py:43", slack_token),
                       Logged("config.py:47",
                              FirstTen(GetEnv("OPENAI_API_KEY", << >>)))}
                /\ UNCHANGED mainRaised
    /\ UNCHANGED <<channels, duration_days, chan, channel_mapping, channel_info,
                   channel_name, apiLog, emptyLog, digestLog, artifacts>>
    /\ UNCHANGED <<env, config_exists, svcDenied, token, tpc>>

\* Add xoxp- prefix if missing
AddPrefix(text) ==
    IF ~StartsWith(text, "xoxp-") /\ ~StartsWith(text, "xoxe.")
    THEN <<"xoxp-">> \o text
    ELSE text

\* Remove any enterprise prefix if present: self.token[5:]
RemoveEnterprise(text) == IF StartsWith(text, "xoxe.") THEN Tail(text) ELSE text

\* SlackClient.__init__ up to _test_auth: the token is logged in full (from
\* the configuration and from the environment), stripped, given the prefix
\* xoxp- when it has neither prefix (logged), relieved of xoxe. (logged);
\* ValueError when it is then empty or does not start with xoxp-, the latter
\* naming its first ten characters in the message main logs.
SlackClientInit ==
    /\ mpc = "slack"
    /\ LET stripped == Strip(GetEnv("SLACK_TOKEN", << >>))
           prefixed == AddPrefix(stripped)
           final == RemoveEnterprise(prefixed)
           debug == {Logged("slack_client.py:39", env["SLACK_TOKEN"].value),
                     Logged("slack_client.py:40", env["SLACK_TOKEN"].value)}
                    \cup (IF prefixed # stripped
                          THEN {Logged("slack_client.py:48", prefixed)} ELSE {})
                    \cup (IF final # prefixed
                          THEN {Logged("slack_client.py:53", final)} ELSE {})
       IN  /\ token' = final
           /\ IF final = << >>
              THEN Fail("ValueError") /\ logs' = logs \cup debug
              ELSE IF ~StartsWith(final, "xoxp-")
              THEN /\ Fail("ValueError")
                   /\ logs' = logs \cup debug
                                \cup {Logged("main.py:91", FirstTen(final))}
              ELSE /\ mpc' = "auth"
                   /\ logs' = logs \cup debug
                   /\ UNCHANGED mainRaised
    /\ UNCHANGED <<channels, duration_days, chan, channel_mapping, channel_info,
                   channel_name, apiLog, emptyLog, digestLog, artifacts>>
    /\ UNCHANGED <<env, config_exists, svcDenied, tpc>>

\* The tokens the service knows; any other is answered invalid_auth.
ValidTokens == {<<"xoxp-", "12345", "67890">>, <<"xoxp-", "12345">>}

\* _test_auth, auth_test(): answered, the first ten characters of the token
\* are logged and the endpoint tests follow; a SlackApiError is logged and
\* re-raised; any other exception leaves the constructor too.
AuthTest ==
    /\ mpc = "auth"
    /\ \E outcome \in {IF token \in ValidTokens THEN "ok" ELSE "invalid_auth",
                        "transport"} :
          /\ apiLog' = Append(apiLog, Call("auth.test", outcome))
          /\ IF outcome = "ok"
             THEN /\ mpc' = "tests"
                  /\ tpc' = 1
                  /\ logs' = logs \cup {Logged("slack_client.py:108", FirstTen(token))}
                  /\ UNCHANGED mainRaised
             ELSE /\ Fail(outcome)
                  /\ UNCHANGED <<tpc, logs>>
    /\ UNCHANGED <<channels, duration_days, chan, channel_mapping, channel_info,
                   channel_name, emptyLog, digestLog, artifacts>>
    /\ UNCHANGED <<env, config_exists, svcDenied, token>>

\* The endpoint tests of _test_auth, in order; the second to the fourth ask
\* about self.channels[0].
TestMethods ==
    <<"conversations.list", "conversations.info", "conversations.history",
      "conversations.members", "usergroups.list">>

\* One endpoint test: self.channels[0] raises IndexError when no channel is
\* configured; the request is answered (a SlackApiError is logged and the
\* next test follows) or raises another exception, which leaves the
\* constructor.
EndpointTest ==
    /\ mpc = "tests"
    /\ IF tpc \in 2..4 /\ channels = << >>
       THEN /\ Fail("IndexError")
            /\ UNCHANGED <<tpc, apiLog>>
       ELSE \/ /\ apiLog' = Append(apiLog,
                      Call(TestMethods[tpc],
                           IF TestMethods[tpc] \in svcDenied
                           THEN "missing_scope" ELSE "ok"))
               /\ tpc' = tpc + 1
               /\ mpc' = IF tpc = Len(TestMethods) THEN "summarizer" ELSE "tests"
               /\ UNCHANGED mainRaised
            \/ /\ apiLog' = Append(apiLog, Call(TestMethods[tpc], "transport"))
               /\ Fail("transport")
               /\ UNCHANGED tpc
    /\ UNCHANGED <<channels, duration_days, chan, channel_mapping, channel_info,
                   channel_name, emptyLog, digestLog, artifacts>>
    /\ UNCHANGED <<env, config_exists, svcDenied, token, logs>>

\* summarizer = Summarizer(config): ValueError when the stripped key is empty
\* or does not start with sk-; models.list() is asked, and its failure is
\* logged and re-raised; then the summaries directory is made.
SummarizerInit ==
    /\ mpc = "summarizer"
    /\ LET api_key == Strip(GetEnv("OPENAI_API_KEY", << >>))
       IN  IF api_key = << >> \/ ~StartsWithSk(api_key)
           THEN Fail("ValueError") /\ UNCHANGED apiLog
           ELSE \/ /\ apiLog' = Append(apiLog, Call("models.list", "ok"))
                   /\ mpc' = "users"
                   /\ UNCHANGED mainRaised
                \/ /\ apiLog' = Append(apiLog, Call("models.list", "failed"))
                   /\ Fail("AuthenticationError")
    /\ UNCHANGED <<channels, duration_days, chan, channel_mapping, channel_info,
                   channel_name, emptyLog, digestLog, artifacts>>
    /\ UNCHANGED startVars

\* user_mapping = slack_client.fetch_user_mapping() has returned or raised.
AfterUserMapping ==
    /\ mpc = "users"
    /\ \/ upc = "returned" /\ mpc' = "channels" /\ UNCHANGED mainRaised
       \/ upc = "raised" /\ Fail(ucall)
    /\ UNCHANGED <<channels, duration_days, chan, channel_mapping, channel_info,
                   channel_name, apiLog, emptyLog, digestLog, artifacts>>

\* channel_mapping = slack_client.fetch_channel_mapping(): the names
\* conversations_list gives, {} on a SlackApiError; another exception leaves it.
FetchChannelMapping ==
    /\ mpc = "channels"
    /\ \/ /\ channel_mapping' \in ChannelMappings
          /\ apiLog' = Append(apiLog, Call("conversations.list", "ok"))
          /\ mpc' = "channel"
          /\ UNCHANGED mainRaised
       \/ /\ channel_mapping' = NoChannels
          /\ apiLog' = Append(apiLog, Call("conversations.list", "ratelimited"))
          /\ mpc' = "channel"
          /\ UNCHANGED mainRaised
       \/ /\ Fail("transport")
          /\ apiLog' = Append(apiLog, Call("conversations.list", "transport"))
          /\ UNCHANGED channel_mapping
    /\ chan' = 1
    /\ UNCHANGED <<channels, duration_days, channel_info, channel_name, emptyLog,
                   digestLog, artifacts>>

\* channel_info before get_channel_info is called.
NoInfo == [call |-> "none", has_name |-> FALSE, name |-> ""]

\* get_channel_info(channel): response["channel"], with a name or without
\* one, or {"name": channel} on any exception.
ChannelInfos(channel) ==
    {[call |-> "ok", has_name |-> TRUE, name |-> "random"],
     [call |-> "ok", has_name |-> FALSE, name |-> ""],
     [call |-> "failed", has_name |-> TRUE, name |-> channel]}

\* channel_name = channel_mapping.get(channel); if not channel_name: ...
NeedsInfo(mapping, channel) ==
    channel \notin DOMAIN mapping \/ mapping[channel] = ""

\* channel_mapping.get(channel), else channel_info.get("name", channel)
ChannelName(mapping, channel, info) ==
    IF ~NeedsInfo(mapping, channel) THEN mapping[channel]
    ELSE IF info.has_name THEN info.name
    ELSE channel

\* A loop that passes over every second channel.
NextChannelSkips(i) == i + 2

\* for channel in config["slack"]["channels"]: the next iteration takes the
\* next element of the list.
NextChannel(i) == i + 1

\* for channel in config["slack"]["channels"]: the loop is over, or the name
\* of the next channel is looked up (channel_mapping, else get_channel_info)
\* and get_channel_messages(channel, days=duration_days) is entered.
BeginChannel ==
    /\ mpc = "channel"
    /\ IF chan > Len(channels)
       THEN /\ mpc' = "exit"
            /\ UNCHANGED <<channel_info, channel_name, fetchVars>>
       ELSE /\ mpc' = "fetching"
            /\ IF NeedsInfo(channel_mapping, channels[chan])
               THEN channel_info' \in ChannelInfos(channels[chan])
               ELSE UNCHANGED channel_info
            /\ channel_name' =
                  ChannelName(channel_mapping, channels[chan], channel_info')
            /\ FetchEntry(duration_days)
    /\ UNCHANGED <<channels, duration_days, chan, channel_mapping, apiLog,
                   emptyLog, digestLog, artifacts, mainRaised>>

\* get_channel_messages has returned or raised: with messages the summary is
\* made next; without, a warning is logged and the loop goes on.
AfterFetch ==
    /\ mpc = "fetching"
    /\ \/ /\ fpc = "done"
          /\ emptyLog' = IF result = << >> THEN emptyLog \cup {chan} ELSE emptyLog
          /\ IF HasMessages(result)
             THEN mpc' = "digest" /\ UNCHANGED chan
             ELSE mpc' = "channel" /\ chan' = NextChannel(chan)
          /\ UNCHANGED mainRaised
       \/ /\ fpc = "raised"
          /\ Fail(raised)
          /\ UNCHANGED <<chan, emptyLog>>
    /\ UNCHANGED <<channels, duration_days, channel_mapping, channel_info,
                   channel_name, apiLog, digestLog, artifacts>>

\* summary = summarizer.summarize_messages(messages, user_mapping): the
\* generated text, or the exception of the completion request, re-raised.
Summarize ==
    /\ mpc = "digest"
    /\ digestLog' = digestLog \cup {chan}
    /\ \/ mpc' = "write" /\ UNCHANGED mainRaised
       \/ Fail("OpenAIError")
    /\ UNCHANGED <<channels, duration_days, chan, channel_mapping, channel_info,
                   channel_name, apiLog, emptyLog, artifacts>>

\* with open(summary_file, "w") as f: ...: the file is written and the loop
\* goes on, or opening or writing raises.
WriteSummary ==
    /\ mpc = "write"
    /\ \/ /\ artifacts' = artifacts \cup {[channel |-> chan, name |-> channel_name]}
          /\ chan' = NextChannel(chan)
          /\ mpc' = "channel"
          /\ UNCHANGED mainRaised
       \/ /\ Fail("OSError")
          /\ UNCHANGED <<chan, artifacts>>
    /\ UNCHANGED <<channels, duration_days, channel_mapping, channel_info,
                   channel_name, apiLog, emptyLog, digestLog>>

\* ----------------------------------------------------------------- time
\* Hours that pass between two runs.
TickHours == {23, 24, 25}
\* The clock stops here.
MaxTime == 50

Tick ==
    /\ Callable
    /\ \E d \in TickHours :
          /\ now + d <= MaxTime
          /\ now' = now + d
    /\ UNCHANGED cacheVars

\* ------------------------------------------------- one call of the fetcher
\* The days argument of the call (the spec's example window).
WindowDays == {7}

\* One call get_channel_messages(channel, days) against a service that has up
\* to MaxHist messages on up to MaxPages pages.
FetcherInit ==
    /\ now = 0
    /\ svcHist = MaxHist
    /\ svcPages = MaxPages
    /\ svcMembers = {}
    /\ fpc = "request"
    /\ oldest_ts \in {OldestTs(0, d) : d \in WindowDays}
    /\ messages = << >>
    /\ cursor = None
    /\ response = NoResponse
    /\ idx = 0
    /\ result = << >>
    /\ raised = None
    /\ reqLog = << >>
    /\ histLog = << >>
    /\ expLog = << >>

\* The files a run may find: none, the entry an earlier run wrote at hour 0,
\* a file of length zero, or a JSON object that lacks one of the keys.
AliceMapping == [k \in {"U1"} |-> "Alice"]
InitialFiles ==
    {NoFile, Dumped(0, AliceMapping), EmptyFile,
     JsonFile({"users"}, IsoFormat(0), JsonDump(AliceMapping)),
     JsonFile({"timestamp"}, IsoFormat(0), {})}

IdleCache(file) ==
    /\ cacheFile = file
    /\ upc = "idle"
    /\ users_response = << >>
    /\ user_mapping = EmptyMapping
    /\ uret = EmptyMapping
    /\ ucall = "none"
    /\ persisted = IF file = Dumped(0, AliceMapping)
                   THEN Entry(0, AliceMapping) ELSE NothingPersisted

IdleFetcher ==
    /\ fpc = "idle"
    /\ oldest_ts = 0
    /\ messages = << >>
    /\ cursor = None
    /\ response = NoResponse
    /\ idx = 0
    /\ result = << >>
    /\ raised = None
    /\ reqLog = << >>
    /\ histLog = << >>
    /\ expLog = << >>

\* main is not running.
NoRun(list) ==
    /\ channels = list
    /\ duration_days \in WindowDays
    /\ mpc = "none"
    /\ chan = 0
    /\ channel_mapping = NoChannels
    /\ channel_info = NoInfo
    /\ channel_name = ""
    /\ apiLog = << >>
    /\ emptyLog = {}
    /\ digestLog = {}
    /\ artifacts = {}
    /\ mainRaised = None
    /\ env = [SLACK_TOKEN |-> Unset, OPENAI_API_KEY |-> Unset]
    /\ config_exists = FALSE
    /\ svcDenied = {}
    /\ token = << >>
    /\ tpc = 0
    /\ logs = {}

Init == FetcherInit /\ IdleCache(NoFile) /\ NoRun(<<"C1">>)

Next == FetchStep /\ UNCHANGED <<cacheVars, mainVars, startVars>>

Spec == Init /\ [][Next]_vars

\* What the service has for one run of main: messages and pages.
MainHist == 1
MainPages == 2

\* One call against the service of one run (MainHist messages, MainPages
\* pages), in which every request is answered or fails and the code goes on
\* after it: a step that can be taken is taken.
LiveInit ==
    /\ now = 0
    /\ svcHist = MainHist
    /\ svcPages = MainPages
    /\ svcMembers = {}
    /\ fpc = "request"
    /\ oldest_ts \in {OldestTs(0, d) : d \in WindowDays}
    /\ messages = << >>
    /\ cursor = None
    /\ response = NoResponse
    /\ idx = 0
    /\ result = << >>
    /\ raised = None
    /\ reqLog = << >>
    /\ histLog = << >>
    /\ expLog = << >>
    /\ IdleCache(NoFile)
    /\ NoRun(<<"C1">>)

SpecLive == LiveInit /\ [][Next]_vars /\ WF_vars(Next)

\* --------------------------------------- fetch_user_mapping, run after run
\* Calls of fetch_user_mapping by successive runs, hours apart, over the file
\* the runs share.
CacheInit ==
    /\ now = 0
    /\ svcHist = 0
    /\ svcPages = 0
    /\ svcMembers = MemberLists
    /\ IdleFetcher
    /\ \E file \in InitialFiles : IdleCache(file)
    /\ NoRun(<<"C1">>)

CacheNext ==
    \/ CacheStep /\ UNCHANGED <<envVars, fetchVars, mainVars, startVars>>
    \/ Killed /\ UNCHANGED <<envVars, fetchVars, mainVars, startVars>>
    \/ Tick /\ UNCHANGED <<envVars, fetchVars, mainVars, startVars>>

SpecCache == CacheInit /\ [][CacheNext]_vars

\* ------------------------------------------------------------ one run
\* The member lists users.list may answer in one run of main.
MainMembers == {<< >>, <<Named("U1", "Al")>>}

\* main() is about to run over the channels of list.
RunStarts(list) ==
    /\ channels = list
    /\ duration_days \in WindowDays
    /\ mpc = "start"
    /\ chan = 0
    /\ channel_mapping = NoChannels
    /\ channel_info = NoInfo
    /\ channel_name = ""
    /\ apiLog = << >>
    /\ emptyLog = {}
    /\ digestLog = {}
    /\ artifacts = {}
    /\ mainRaised = None
    /\ token = << >>
    /\ tpc = 0
    /\ logs = {}

\* Credentials that pass every check of the startup.
GoodEnv ==
    [SLACK_TOKEN |-> Value(<<"xoxp-", "12345", "67890">>),
     OPENAI_API_KEY |-> Value(<<"sk-ab", "cdefg", "hijkl">>)]

\* One run of main(), at hour 0 or a day later, over the file an earlier run
\* left (none, the entry of hour 0, or a file of length zero), with good
\* credentials and a configuration file.
MainInit ==
    /\ now \in {0, 24}
    /\ svcHist = MainHist
    /\ svcPages = MainPages
    /\ svcMembers = MainMembers
    /\ IdleFetcher
    /\ \E file \in {NoFile, Dumped(0, AliceMapping), EmptyFile} : IdleCache(file)
    /\ \E list \in ChannelLists : RunStarts(list)
    /\ env = GoodEnv
    /\ config_exists = TRUE
    /\ svcDenied = {}

MainNext ==
    \/ LoadConfig /\ UNCHANGED <<now, envVars, fetchVars, cacheVars>>
    \/ SlackClientInit /\ UNCHANGED <<now, envVars, fetchVars, cacheVars>>
    \/ AuthTest /\ UNCHANGED <<now, envVars, fetchVars, cacheVars>>
    \/ EndpointTest /\ UNCHANGED <<now, envVars, fetchVars, cacheVars>>
    \/ SummarizerInit /\ UNCHANGED <<now, envVars, fetchVars, cacheVars>>
    \/ mpc = "users" /\ upc = "idle" /\ FetchUserMapping
          /\ UNCHANGED <<envVars, fetchVars, mainVars, startVars>>
    \/ mpc = "users" /\ SaveOpen
          /\ UNCHANGED <<envVars, fetchVars, mainVars, startVars>>
    \/ mpc = "users" /\ SaveDump
          /\ UNCHANGED <<envVars, fetchVars, mainVars, startVars>>
    \/ AfterUserMapping
          /\ UNCHANGED <<now, envVars, fetchVars, cacheVars, startVars>>
    \/ FetchChannelMapping
          /\ UNCHANGED <<now, envVars, fetchVars, cacheVars, startVars>>
    \/ BeginChannel /\ UNCHANGED <<now, envVars, cacheVars, startVars>>
    \/ mpc = "fetching" /\ FetchStep
          /\ UNCHANGED <<cacheVars, mainVars, startVars>>
    \/ AfterFetch /\ UNCHANGED <<now, envVars, fetchVars, cacheVars, startVars>>
    \/ Summarize /\ UNCHANGED <<now, envVars, fetchVars, cacheVars, startVars>>
    \/ WriteSummary /\ UNCHANGED <<now, envVars, fetchVars, cacheVars, startVars>>

SpecMain == MainInit /\ [][MainNext]_vars

\* --------------------------------------------- one run, any environment
\* The sets of methods the service may refuse the token for want of a scope.
DeniedSets ==
    {{}, {"conversations.history"}, {"conversations.list", "conversations.info"},
     {TestMethods[i] : i \in 1..Len(TestMethods)}}

\* One run of main() with any credentials, with or without a configuration
\* file, with no or one channel, against a service that has one page with at
\* most one message.
StartInit ==
    /\ now = 0
    /\ svcHist = 1
    /\ svcPages = 1
    /\ svcMembers = {<< >>}
    /\ IdleFetcher
    /\ IdleCache(NoFile)
    /\ \E list \in {<< >>, <<"C1">>} : RunStarts(list)
    /\ env \in [SLACK_TOKEN : SlackTokens, OPENAI_API_KEY : OpenAiKeys]
    /\ config_exists \in BOOLEAN
    /\ svcDenied \in DeniedSets

SpecStart == StartInit /\ [][MainNext]_vars

\* ================================================================ claims
\* Vocabulary of the claims, independent of the operators that model the code.
Plain(m) == m.type = "message" /\ m.subtype = ""
PlainOnly(seq) == SelectSeq(seq, Plain)
AllPagesOk == \A i \in 1..Len(reqLog) : reqLog[i].outcome = "ok"
Returned == fpc = "done" /\ AllPagesOk

\* How many entries of seq belong to thread t / carry the id t.
OfThread(seq, t) == Len(SelectSeq(seq, LAMBDA m : m.thread_ts = t))
WithId(seq, t) == Len(SelectSeq(seq, LAMBDA m : m.ts = t))

\* The history listed thread t the way the data model has it: its root once,
\* and no other entry of that thread or with that id.
ListedOnce(t) ==
    Cardinality({i \in 1..Len(histLog) :
                    histLog[i].ts = t \/ histLog[i].thread_ts = t}) = 1

\* The expansion e answered the root of its thread followed by replies.
RootThenReplies(e) ==
    /\ expLog[e].outcome = "ok"
    /\ expLog[e].messages # << >>
    /\ histLog[expLog[e].at].thread_ts = histLog[expLog[e].at].ts
    /\ expLog[e].messages[1] = histLog[expLog[e].at]

\* C1: when the call returns its accumulation, every thread root of the
\* history whose expansion answered the root followed by N ordinary and M
\* subtype replies has exactly 1 + N entries in the result, and the root is
\* there exactly once.
C1_ThreadEntries ==
    Returned =>
        \A e \in 1..Len(expLog) :
            (RootThenReplies(e) /\ ListedOnce(expLog[e].ts)) =>
                /\ OfThread(result, expLog[e].ts)
                     = 1 + Len(PlainOnly(Tail(expLog[e].messages)))
                /\ WithId(result, expLog[e].ts) = 1

\* C1's case: a returned call with a thread of one ordinary and one subtype reply.
C1_Witness ==
    /\ Returned
    /\ \E e \in 1..Len(expLog) :
          /\ RootThenReplies(e)
          /\ ListedOnce(expLog[e].ts)
          /\ Len(expLog[e].messages) = 3
          /\ Len(PlainOnly(Tail(expLog[e].messages))) = 1
          /\ OfThread(result, expLog[e].ts) = 2

\* The cursors of the history requests chain: the first request carries none,
\* each later one the next_cursor of the page before it.
CursorChain ==
    \A i \in 1..Len(reqLog) :
        reqLog[i].cursor = IF i = 1 THEN None ELSE reqLog[i - 1].next_cursor

\* C4 as stated: the call stops only at a page that carries no next cursor, so
\* k pages of which the first k-1 carry a cursor get exactly k requests.
C4_Original ==
    Returned =>
        /\ CursorChain
        /\ \A i \in 1..(Len(reqLog) - 1) : Truthy(reqLog[i].next_cursor)
        /\ ~Truthy(reqLog[Len(reqLog)].next_cursor)

\* C4, amended: every page before the last carries a next cursor and the
\* more-data flag, the page the call stops at lacks one of the two, and the
\* requests chain the cursors from none; a returned call issues no request.
C4_Pagination ==
    /\ CursorChain
    /\ \A i \in 1..(Len(reqLog) - 1) :
          /\ reqLog[i].outcome = "ok"
          /\ Truthy(reqLog[i].next_cursor)
          /\ reqLog[i].has_more
    /\ Returned =>
          \/ ~Truthy(reqLog[Len(reqLog)].next_cursor)
          \/ ~reqLog[Len(reqLog)].has_more
    /\ fpc = "done" => ~ENABLED HistoryPage /\ ~ENABLED HistoryFails

\* C4's case: the cursors C1, C2, None over three pages, three requests.
C4_Witness ==
    /\ Returned
    /\ Len(reqLog) = 3
    /\ reqLog[1].cursor = None /\ reqLog[1].next_cursor = "C1"
    /\ reqLog[2].cursor = "C1" /\ reqLog[2].next_cursor = "C2"
    /\ reqLog[3].cursor = "C2" /\ reqLog[3].next_cursor = None

\* The kept replies the expansion made for history entry i contributed.
RepliesAt(i) ==
    IF \E e \in 1..Len(expLog) :
          expLog[e].at = i /\ expLog[e].outcome = "ok" /\ expLog[e].messages # << >>
    THEN LET e == CHOOSE e \in 1..Len(expLog) : expLog[e].at = i
         IN PlainOnly(Tail(expLog[e].messages))
    ELSE << >>

\* The kept top-level messages from entry i on, in the order of the history,
\* each followed by the kept replies of its expansion.
RECURSIVE RootsThenReplies(_)
RootsThenReplies(i) ==
    IF i > Len(histLog) THEN << >>
    ELSE (IF Plain(histLog[i]) THEN <<histLog[i]>> \o RepliesAt(i) ELSE << >>)
         \o RootsThenReplies(i + 1)

\* C5: the result is the kept top-level messages in the order the pages gave
\* them, each thread's kept replies right after the message that opened it.
C5_Order == Returned => result = RootsThenReplies(1)

\* C5's case: msg1 with one ordinary reply, then msg2: [msg1, reply1, msg2].
C5_Witness ==
    /\ Returned
    /\ Len(histLog) = 2
    /\ histLog[1] = Root(1)
    /\ histLog[2] = [ts |-> 2, type |-> "message", subtype |-> "", thread_ts |-> 0]
    /\ result = <<histLog[1], Reply(1, 1, ""), histLog[2]>>

\* C6: every accumulated and every returned message is ordinary.
C6_OnlyOrdinary ==
    /\ \A i \in 1..Len(messages) : Plain(messages[i])
    /\ \A i \in 1..Len(result) : Plain(result[i])

\* C6's case: a subtype message on a page and a subtype reply in an expansion,
\* and a result that kept something.
C6_Witness ==
    /\ Returned
    /\ result # << >>
    /\ \E i \in 1..Len(histLog) : ~Plain(histLog[i])
    /\ \E e \in 1..Len(expLog) :
          \E j \in 1..Len(expLog[e].messages) : ~Plain(expLog[e].messages[j])

\* C7: a history request that fails with channel_not_found is the last
\* request of the call, which returns the empty list and raises nothing.
C7_ChannelNotFound ==
    \A i \in 1..Len(reqLog) :
        reqLog[i].outcome = "channel_not_found" =>
            /\ i = Len(reqLog)
            /\ fpc = "done"
            /\ result = << >>
            /\ raised = None
            /\ ~ENABLED HistoryPage /\ ~ENABLED HistoryFails

\* C7's case: the second page fails after the first has contributed messages.
C7_Witness ==
    /\ Len(reqLog) = 2
    /\ reqLog[2].outcome = "channel_not_found"
    /\ messages # << >>
    /\ result = << >>

\* C8: a failed expansion never makes the call raise, and the call returns
\* what it would have returned had that thread no replies.
C8_ExpansionFailure ==
    /\ \A e \in 1..Len(expLog) :
          expLog[e].outcome # "ok" => ~(fpc = "raised" /\ AllPagesOk)
    /\ Returned => result = RootsThenReplies(1)

\* C2: a call that finds the entry a fetch persisted at t0 returns that
\* entry's mapping without a users.list request when now - t0 < 24 hours, and
\* asks users.list when now - t0 >= 24 hours.
C2_Freshness ==
    [][(FetchUserMapping /\ persisted.has) =>
          IF now - persisted.at < 24
          THEN ucall' = "cached" /\ upc' = "returned" /\ uret' = persisted.mapping
          ELSE ucall' # "cached"]_vars

\* C2's case: a fetch persisted at hour 23 serves the call at hour 46.
C2_Witness ==
    /\ persisted.has
    /\ persisted.at = 23
    /\ now = 46
    /\ ucall = "cached"
    /\ upc = "returned"
    /\ uret = persisted.mapping
    /\ uret # EmptyMapping

\* C3: a call whose users.list request failed has returned, with the mapping
\* of the persisted entry when there is one and the empty mapping when there
\* is no file.
C3_FetchFailure ==
    (ucall \in ApiErrors \cup {"transport"} /\ (persisted.has \/ ~Exists(cacheFile)))
        => /\ upc = "returned"
           /\ uret = IF persisted.has THEN persisted.mapping ELSE EmptyMapping

\* The file is absent or one complete document {timestamp, users}.
Whole(file) ==
    \/ file.kind = "absent"
    \/ file.kind = "json" /\ file.keys = {"timestamp", "users"}

\* C10: no step takes the cache file from absent-or-complete to anything else.
C10_AtomicCacheFile == [][Whole(cacheFile) => Whole(cacheFile')]_vars

\* C9: a channel whose fetch returned no message gets no summarize_messages
\* call and no summary file, ends the run with no exception, and the loop has
\* gone past it.
C9_SkipEmptyChannel ==
    \A i \in emptyLog :
       /\ i \notin digestLog
       /\ \A a \in artifacts : a.channel # i
       /\ chan > i
       /\ mpc \in {"channel", "fetching", "digest", "write", "exit", "failed"}
       /\ mpc = "failed" => mainRaised # None /\ chan \notin emptyLog

\* C9's case: the first channel was not found, and the run is at the second.
C9_Witness ==
    /\ Len(channels) = 2
    /\ emptyLog = {1}
    /\ chan = 2
    /\ mpc = "channel"
    /\ reqLog # << >>
    /\ reqLog[Len(reqLog)].outcome = "channel_not_found"

\* The values a member offers for its name, in the order of precedence, and
\* the first of them that is not empty (the id never is).
Candidates(m) == <<m.display_name, m.real_name, m.name, m.id>>
FirstNonEmpty(seq) ==
    seq[CHOOSE i \in 1..Len(seq) : seq[i] # "" /\ \A j \in 1..(i - 1) : seq[j] = ""]

\* C11: the mapping built from a users.list response has one entry per member
\* id, and the entry of a member (the last one listed with its id) is the
\* first non-empty of display name, real name, account name, id.
C11_NamePrecedence ==
    upc \in {"save", "write"} =>
        /\ DOMAIN user_mapping =
              {users_response[i].id : i \in 1..Len(users_response)}
        /\ \A i \in 1..Len(users_response) :
              (\A j \in (i + 1)..Len(users_response) :
                  users_response[j].id # users_response[i].id)
              => user_mapping[users_response[i].id]
                    = FirstNonEmpty(Candidates(users_response[i]))

\* C11's case: display_name empty, real_name Bob, account name bob123 is Bob.
C11_Witness ==
    /\ upc = "save"
    /\ users_response =
          <<[id |-> "U1", display_name |-> "", real_name |-> "Bob", name |-> "bob123"]>>
    /\ user_mapping["U1"] = "Bob"

\* C12: a dump that completes leaves the document {timestamp: now, users:
\* mapping}; what _load_user_cache reads back from it is the mapping the call
\* returns, which is the one built from the response, key for key.
C12_PersistedEntry ==
    [][(upc = "write" /\ cacheFile'.kind = "json") =>
          /\ upc' = "returned"
          /\ cacheFile'.keys = {"timestamp", "users"}
          /\ FromIsoFormat(cacheFile'.timestamp) = now
          /\ uret' = BuildMapping(users_response)
          /\ LoadUserCache(cacheFile') = uret'
          /\ DOMAIN LoadUserCache(cacheFile') = DOMAIN uret']_vars

\* C12's case: a day after the entry {U1: Alice} of hour 0 or later, the file
\* holds an entry of this hour with another member and without U1.
C12_Witness ==
    /\ upc = "returned"
    /\ ucall = "fetched"
    /\ now >= 24
    /\ cacheFile.kind = "json"
    /\ FromIsoFormat(cacheFile.timestamp) = now
    /\ LoadUserCache(cacheFile) = uret
    /\ DOMAIN uret = {"U2"}

\* C14: a history request that fails with anything but channel_not_found is
\* the last request of the call, which raises that error and returns nothing.
C14_HistoryFailureRaises ==
    \A i \in 1..Len(reqLog) :
        reqLog[i].outcome \notin {"ok", "channel_not_found"} =>
            /\ i = Len(reqLog)
            /\ fpc = "raised"
            /\ raised = reqLog[i].outcome
            /\ result = << >>
            /\ ~ENABLED HistoryPage /\ ~ENABLED HistoryFails

\* C14's case: the second page is rate limited after the first has
\* contributed messages.
C14_Witness ==
    /\ Len(reqLog) = 2
    /\ reqLog[2].outcome = "ratelimited"
    /\ messages # << >>
    /\ fpc = "raised"
    /\ raised = "ratelimited"

\* C16: a returned sequence is ordered by increasing id.
C16_OrderedById ==
    Returned =>
        \A i \in 1..Len(result) : \A j \in (i + 1)..Len(result) :
            result[i].ts <= result[j].ts

\* C17: a returned sequence holds no id at two positions.
C17_NoDuplicateIds ==
    Returned =>
        \A i \in 1..Len(result) : \A j \in (i + 1)..Len(result) :
            result[i].ts # result[j].ts

\* C13: a failure of summarize_messages for a channel leaves no summary file
\* for that channel and does not end the run while channels remain.
C13_DigestFailure ==
    mainRaised = "OpenAIError" =>
        /\ \A a \in artifacts : a.channel # chan
        /\ ~(mpc = "failed" /\ chan < Len(channels))

\* The name in use for the channel of the loop is the mapping's entry, else
\* the name get_channel_info answered, else the channel id.
NameByPrecedence ==
    mpc \in {"fetching", "digest", "write"} =>
        channel_name =
            IF channels[chan] \in DOMAIN channel_mapping
            THEN channel_mapping[channels[chan]]
            ELSE IF channel_info.call = "ok" /\ channel_info.has_name
                 THEN channel_info.name
                 ELSE channels[chan]

\* A conversations.list request of fetch_channel_mapping that failed left the
\* empty mapping and the run going: a run that ended, ended after the fetch of
\* a channel was entered.
ListingFailureDegrades ==
    \A i \in 1..Len(apiLog) :
        (apiLog[i].method = "conversations.list" /\ apiLog[i].outcome # "ok") =>
            /\ channel_mapping = NoChannels
            /\ mpc = "failed" => fpc # "idle"

\* C15: the channel's name follows the precedence mapping, info lookup, id;
\* and a failed channel listing gives the empty mapping and never ends the run.
C15_ChannelName == NameByPrecedence /\ ListingFailureDegrades

\* The blocks of the two credential values.
CredentialBlocks ==
    {env[var].value[i] : var \in {"SLACK_TOKEN"}, i \in 1..Len(env["SLACK_TOKEN"].value)}
    \cup {env[var].value[i] :
             var \in {"OPENAI_API_KEY"}, i \in 1..Len(env["OPENAI_API_KEY"].value)}

\* The record carries a part of a credential value (spaces apart).
Leaks(r) == \E i \in 1..Len(r.text) : r.text[i] \in CredentialBlocks \ {Blank}

\* C18: no log record carries a credential value or a part of one.
C18_NoCredentialLogged == \A r \in logs : ~Leaks(r)

\* A required credential is missing (unset or empty), or the configuration
\* file is.
ConfigurationError ==
    \/ \E var \in {"SLACK_TOKEN", "OPENAI_API_KEY"} :
          ~env[var].set \/ env[var].value = << >>
    \/ ~config_exists

\* C19: with a configuration error the run gets no further than load_config,
\* where it ends with an error: no request is issued, fetch_user_mapping is
\* not called and the cache file not touched, nothing is summarised or written.
C19_ConfigurationError ==
    ConfigurationError =>
        /\ mpc \in {"start", "failed"}
        /\ mpc = "failed" => mainRaised \in {"ValueError", "FileNotFoundError"}
        /\ apiLog = << >>
        /\ reqLog = << >> /\ expLog = << >>
        /\ upc = "idle" /\ ucall = "none" /\ cacheFile = NoFile
        /\ digestLog = {} /\ artifacts = {}

\* C19's case: both credentials are set, the configuration file is missing,
\* and the run has ended.
C19_Witness ==
    /\ env = GoodEnv
    /\ ~config_exists
    /\ mpc = "failed"
    /\ mainRaised = "FileNotFoundError"

\* The service refused the token: as invalid, or for want of a scope.
AuthenticationError ==
    \E i \in 1..Len(apiLog) : apiLog[i].outcome \in {"invalid_auth", "missing_scope"}

\* C20: once the service has refused the token the construction of
\* SlackClient does not complete: the run is in _test_auth or has ended, no
\* mapping is fetched, no channel processed, nothing written.
C20_AuthenticationError ==
    AuthenticationError =>
        /\ mpc \in {"auth", "tests", "failed"}
        /\ upc = "idle"
        /\ \A i \in 1..Len(apiLog) : apiLog[i].method # "models.list"
        /\ chan = 0
        /\ reqLog = << >>
        /\ artifacts = {}

\* C23: every expansion request is for a kept message that is the root of
\* its thread, no thread is asked for twice, and the request carries the
\* oldest of the call.
C23_ExpansionOnlyForRoots ==
    /\ \A e \in 1..Len(expLog) :
          /\ Plain(histLog[expLog[e].at])
          /\ histLog[expLog[e].at].thread_ts = histLog[expLog[e].at].ts
          /\ expLog[e].ts = histLog[expLog[e].at].ts
          /\ expLog[e].oldest = oldest_ts
    /\ \A e \in 1..Len(expLog) : \A f \in (e + 1)..Len(expLog) :
          expLog[e].ts # expLog[f].ts

\* The page in hand carries a next cursor and the more-data flag.
Continues(page) == Truthy(page.next_cursor) /\ page.has_more

\* C24: the step after a page's last message ends the loop (the call returns
\* what it has, and asks no more) exactly when the page lacks the next cursor
\* or the more-data flag, and goes to the next request, with the page's
\* cursor, exactly when it has both; no request follows a page lacking one.
C24_LoopEnd ==
    /\ [][(fpc = "process" /\ idx > Len(response.messages)) =>
             IF Continues(response)
             THEN fpc' = "request" /\ cursor' = response.next_cursor
             ELSE fpc' = "done" /\ result' = messages /\ reqLog' = reqLog]_vars
    /\ [](\A i \in 1..Len(reqLog) :
             (reqLog[i].outcome = "ok"
                 /\ ~Continues([next_cursor |-> reqLog[i].next_cursor,
                                has_more |-> reqLog[i].has_more]))
             => i = Len(reqLog))
    /\ [](fpc = "done" => ~ENABLED HistoryPage /\ ~ENABLED HistoryFails)

\* C24's case: a first page with both, then a page with the flag and no
\* cursor, and the call has returned after two requests.
C24_Witness ==
    /\ fpc = "done"
    /\ Len(reqLog) = 2
    /\ reqLog[1].has_more /\ Truthy(reqLog[1].next_cursor)
    /\ reqLog[2].outcome = "ok"
    /\ reqLog[2].has_more /\ ~Truthy(reqLog[2].next_cursor)

\* Every page so far carried a next cursor and the more-data flag.
EndlessSoFar ==
    \A i \in 1..Len(reqLog) :
        /\ reqLog[i].outcome = "ok"
        /\ Truthy(reqLog[i].next_cursor)
        /\ reqLog[i].has_more

\* C25: once a page without a continuation is answered the call ends
\* (returns or raises), as it does when a request fails; and as long as every
\* page carries a continuation the call does not return but asks on, for as
\* many pages as the service gives.
C25_Termination ==
    /\ (fpc = "process" /\ ~Continues(response)) ~> (fpc \in {"done", "raised"})
    /\ [](EndlessSoFar => fpc # "done")
    /\ []((EndlessSoFar /\ fpc = "request" /\ svcPages > 0) => ENABLED HistoryPage)

\* C25's case: every page the service had carried a continuation, and the
\* call stands at its next request.
C25_Witness ==
    /\ Len(reqLog) = MainPages
    /\ EndlessSoFar
    /\ fpc = "request"

\* Channel i of the list is finished: found empty, or its summary written.
Complete(i) == i \in emptyLog \/ \E a \in artifacts : a.channel = i

\* Something of channel i has happened: its fetch has returned, its digest
\* was asked for, or its summary written.
Began(i) == i \in emptyLog \/ i \in digestLog \/ \E a \in artifacts : a.channel = i

\* C21: channels are handled one at a time in list order. Every channel
\* before the current one is finished and nothing of a later one has begun;
\* the current channel changes only to the next of the list, at the step that
\* finishes it; history and reply requests are issued only inside the fetch of
\* the current channel, the digest and the write only for the current channel
\* after its fetch has returned, and never while another call is under way.
C21_OneAtATime ==
    /\ [](\A i \in 1..Len(channels) :
             /\ (chan >= 1 /\ i < chan) => Complete(i)
             /\ (i > chan \/ chan = 0 \/ (i = chan /\ mpc = "channel")) => ~Began(i))
    /\ [](fpc \in {"request", "process"} => mpc = "fetching" /\ upc \notin {"save", "write"})
    /\ [][/\ (chan >= 1 /\ chan' # chan)
                => chan' = chan + 1 /\ \E done \in {chan} : Complete(done)'
          /\ (Len(reqLog') > Len(reqLog) \/ Len(expLog') > Len(expLog))
                => mpc = "fetching" /\ mpc' = "fetching" /\ chan' = chan
          /\ digestLog' # digestLog
                => mpc = "digest" /\ fpc = "done" /\ digestLog' = digestLog \cup {chan}
          /\ artifacts' # artifacts
                => /\ mpc = "write" /\ chan \in digestLog
                   /\ \A a \in artifacts' \ artifacts : a.channel = chan]_vars

\* C21's case: the first channel's summary is written and a request for the
\* second channel has been answered.
C21_Witness ==
    /\ chan = 2
    /\ mpc = "fetching"
    /\ Len(reqLog) >= 1
    /\ 1 \in digestLog
    /\ \E a \in artifacts : a.channel = 1

\* C22: in a run the cache file changes only inside the one save that
\* follows a successful users.list; a call served from the cache, or whose
\* users.list fails, returns or raises with the file and the persisted entry as
\* they were; and once the call is over neither changes again in the run.
C22_WrittenOnceAfterFetch ==
    /\ [][(cacheFile' # cacheFile \/ persisted' # persisted)
             => ucall = "fetched" /\ upc \in {"save", "write"} /\ mpc = "users"]_vars
    /\ [][(upc = "idle" /\ upc' # "idle" /\ ucall' # "fetched")
             => /\ upc' \in {"returned", "raised"}
                /\ cacheFile' = cacheFile
                /\ persisted' = persisted]_vars
    /\ [][(upc \in {"returned", "raised"})
             => upc' = upc /\ cacheFile' = cacheFile /\ persisted' = persisted]_vars
    /\ [][(upc = "write") => upc' \in {"write", "returned"}]_vars

\* C22's case: users.list failed over a stale entry, and the entry is still
\* in the file.
C22_Witness ==
    /\ upc = "returned"
    /\ ucall \in ApiErrors
    /\ now = 24
    /\ cacheFile = Dumped(0, AliceMapping)
    /\ uret = AliceMapping

\* The SLACK_TOKEN variable is unset, empty or whitespace only.
TokenMissing == Strip(GetEnv("SLACK_TOKEN", << >>)) = << >>

\* C26: with SLACK_TOKEN unset, empty or blank the construction ends with
\* the ValueError and the run makes no request; and every request is made
\* with a token that starts with xoxp- and has something after it.
C26_TokenCheck ==
    /\ [][(mpc = "slack" /\ TokenMissing)
             => mpc' = "failed" /\ mainRaised' = "ValueError"]_vars
    /\ [](TokenMissing => apiLog = << >>)
    /\ [](apiLog # << >> => StartsWith(token, "xoxp-") /\ Len(token) > 1)

\* C27: a save that does not complete (the file cannot be opened, or the
\* dump fails on the way) still ends in the return of the mapping built from
\* the members just fetched; the persisted timestamp does not advance, the
\* file is valid at no later hour, and a call that finds it asks users.list.
C27_SaveFailure ==
    [][/\ (/\ upc \in {"save", "write"}
           /\ upc' \notin {"save", "write", "killed"}
           /\ cacheFile' # Dumped(now, user_mapping))
          => /\ upc' = "returned"
             /\ uret' = BuildMapping(users_response)
             /\ persisted'.at <= persisted.at
             /\ \A t \in now..MaxTime : ~IsCacheValid(cacheFile', t)
       /\ (FetchUserMapping /\ ~Parses(cacheFile)) => ucall' # "cached"]_vars

\* C27's case: the dump failed on the way, the mapping was returned, and the
\* next call has asked users.list again.
C27_Witness ==
    /\ cacheFile = PartialFile
    /\ ucall = "fetched"
    /\ upc = "save"
    /\ uret # EmptyMapping

\* The file exists and is not a document with a timestamp and users.
Malformed(file) ==
    /\ Exists(file)
    /\ ~Parses(file) \/ "timestamp" \notin file.keys \/ "users" \notin file.keys

\* C28: a call that finds a malformed file asks users.list; on success it
\* goes on to overwrite the file, on failure it returns the empty mapping and
\* does not raise.
C28_MalformedCache ==
    [][(FetchUserMapping /\ Malformed(cacheFile))
          => /\ ucall' # "cached"
             /\ upc' \in {"save", "returned"}
             /\ upc' = "returned" => uret' = EmptyMapping]_vars

====
